---------------------------- MODULE Spec2Model ----------------------------
(***************************************************************************)
(* A model of the Portfolio component of src/App.jsx: a single React       *)
(* component that owns two pieces of state, currentView and                *)
(* selectedProject, a static project registry, and three presentational    *)
(* sub-components (ProjectCard, ProjectDetail, HomePage) selected by the   *)
(* conditional render at the end of the component.                         *)
(*                                                                         *)
(* A rendered view is modelled as a record holding the text the markup     *)
(* shows and the controls it offers; styling (className) is left out.      *)
(* Three specifications share the definitions:                             *)
(*   Spec           the user's gestures on the rendered controls, each     *)
(*                  handler's state writes committed in one render         *)
(*                  (React batches the writes of an event handler);        *)
(*   SpecUnbatched  as Spec, and the card handler's two writes may also    *)
(*                  be committed one at a time, a render after each;       *)
(*   SpecApi        the two handlers invoked as operations of the          *)
(*                  controller, with any identifier and from either view.  *)
(***************************************************************************)
EXTENDS Naturals, Sequences, FiniteSets

VARIABLES
    currentView,      \* useState('home')
    selectedProject,  \* useState(null)
    rendered,         \* what the last render of the component returned
    renders,          \* how many times the component has rendered
    pc,               \* "idle", or "onClick" between the card handler's two writes
    log               \* the gestures (or calls) handled so far, oldest first

vars == <<currentView, selectedProject, rendered, renders, pc, log>>

(* Bounds of the model. *)
MaxGestures == 10
MaxCalls == 4


(* ------------------------- the project registry ------------------------ *)

(* The two records, their text as in the source (the one non-ASCII dash of    *)
(* the source, in blogging's third tradeoff, is written -- here).            *)
ecommerce ==
    [ title  |-> "E-Commerce System",
      status |-> "In Progress",
      tagline |-> "A system built to study real failure scenarios",
      problem |-> "Most e-commerce tutorials skip the hard parts: what happens when payment providers timeout, inventory gets oversold, or orders get stuck in limbo. I built this to understand how real systems handle these edge cases.",
      architecture |-> <<
        "Order service manages state transitions through a finite state machine",
        "Inventory service handles reservations with TTL and deduction logic",
        "Payment service integrates with external providers, handling success/failure/timeout states",
        "Event-driven communication for async operations like notifications and auditing",
        "PostgreSQL for transactional consistency where it matters, Redis for reservation locks" >>,
      decisions |-> <<
        [ choice    |-> "Inventory reservation before payment",
          reasoning |-> "Reserve items with a 10-minute TTL. Release on timeout or payment failure. Prevents overselling without holding stock indefinitely.",
          tradeoff  |-> "Adds complexity. Alternative would be optimistic deduction with compensation, but that creates worse UX when stock runs out during checkout." ],
        [ choice    |-> "Idempotency keys on order creation",
          reasoning |-> "Network retries can cause duplicate orders. Idempotency keys ensure the same request produces the same result.",
          tradeoff  |-> "Requires key storage and expiration logic. Worth it to prevent double-charging customers." ],
        [ choice    |-> "Async event processing for non-critical paths",
          reasoning |-> "Confirmation emails and analytics don't need to block order completion. Queue them for async processing.",
          tradeoff  |-> "Eventual consistency. Users might complete checkout before receiving email. Acceptable for this use case." ] >>,
      failures |-> <<
        "Payment provider timeout: order stays in pending state. Built a background job to poll provider status and reconcile.",
        "Inventory reservation expires during slow checkout: user sees \"item no longer available\" after payment. Added pre-payment validation step.",
        "Concurrent requests to same inventory: race condition on stock count. Implemented pessimistic locking for inventory reads during reservation.",
        "Event processing failure: lost notification events. Added dead letter queue and monitoring." >>,
      next |-> <<
        "Simulate partial outages: database connection pool exhaustion, service degradation",
        "Implement saga pattern for distributed transactions across order/payment/inventory",
        "Add OpenTelemetry tracing to visualize request flow through services",
        "Load test with k6 to identify bottlenecks" >> ]

blogging ==
    [ title  |-> "Microservices Blogging Platform",
      status |-> "Completed",
      tagline |-> "Built to understand microservices architecture beyond buzzwords",
      problem |-> "Microservices are often presented as either a silver bullet or over-engineering. I built this to understand the actual complexity: service boundaries, data consistency, and when the cost is worth it.",
      architecture |-> <<
        "API Gateway handles routing, rate limiting, and request validation",
        "Auth Service manages users, sessions, JWT tokens",
        "Content Service handles posts, comments, drafts",
        "Notification Service processes email/push notifications asynchronously",
        "Each service has its own PostgreSQL database (no shared schema)",
        "Redis for session storage and content caching",
        "RabbitMQ for async messaging between services",
        "S3 for media uploads with pre-signed URLs" >>,
      decisions |-> <<
        [ choice    |-> "Database per service",
          reasoning |-> "Each service owns its data. Changes to one schema don't cascade. Services can scale independently.",
          tradeoff  |-> "No foreign keys across services. Joins become API calls. Eventual consistency on reads. Had to implement distributed data patterns." ],
        [ choice    |-> "Redis cache with TTL",
          reasoning |-> "Popular posts get hammered. Cache responses for 60 seconds to reduce database load.",
          tradeoff  |-> "Stale reads. Cache invalidation on updates is hard. Implemented cache-aside pattern with write-through on critical paths." ],
        [ choice    |-> "Async notifications via message queue",
          reasoning |-> "Don't block content creation while sending emails. Notifications aren't critical path.",
          tradeoff  |-> "User publishes post, notification arrives seconds later. Acceptable delay. Notifications can fail silently--added retry logic and monitoring." ],
        [ choice    |-> "API Gateway as single entry point",
          reasoning |-> "Centralized auth, rate limiting, routing. Services don't need to implement these concerns.",
          tradeoff  |-> "Single point of failure. Adds latency. Worth it for simplified service logic and consistent security layer." ] >>,
      failures |-> <<
        "Cache stampede: popular post cache expires, 100 requests hit database simultaneously. Added probabilistic early expiration.",
        "Service-to-service coupling: content service called notification service directly. Changed to event-driven to decouple.",
        "Distributed transaction complexity: user publishes post, notification fails. Post is live but users aren't notified. Acceptable for this system, but learned about saga patterns.",
        "S3 upload timeout: large images failed silently. Implemented client-side compression and progress tracking." >>,
      next |-> <<
        "Was this worth the complexity? For a blogging platform, probably not. Learned the cost of microservices firsthand.",
        "Would use this pattern again for: domains with truly independent lifecycles, teams that need autonomous deployment, services that scale differently.",
        "Would not use for: CRUD apps, small teams, startups finding product-market fit." >> ]

projects == [ ecommerce |-> ecommerce, blogging |-> blogging ]

(* The registry's keys in the order of the object literal. *)
projectKeys == << "ecommerce", "blogging" >>

(* projects[id] is undefined for an id that is no key of the registry. *)
HasProject(id) == id \in DOMAIN projects

(* Identifiers a caller may pass: the two keys, a string that is no key,   *)
(* and the empty string.                                                   *)
Ids == DOMAIN projects \cup { "unknown", "" }

(* ----------------------------- the components -------------------------- *)

(* ProjectCard: title, status and tagline of the record; its onClick       *)
(* carries projectKey.                                                     *)
ProjectCard(projectKey, project) ==
    [ projectKey |-> projectKey,
      title      |-> project.title,
      status     |-> project.status,
      tagline    |-> project.tagline ]

(* FinalHeading comparing against a key the registry does not hold. *)
FinalHeading_typo(selected) ==
    IF selected = "e-commerce" THEN "What's Next" ELSE "Lessons Learned"

(* The heading of the final section is chosen by the selected key, not by  *)
(* the record.                                                             *)
FinalHeading(selected) ==
    IF selected = "ecommerce" THEN "What's Next" ELSE "Lessons Learned"

(* ProjectDetail: the Back control, the header and the five sections in    *)
(* their fixed order.  It reads the component's selectedProject for the    *)
(* final heading.                                                          *)
ProjectDetail(project, selected) ==
    [ view     |-> "project",
      back     |-> "Back",
      title    |-> project.title,
      status   |-> project.status,
      sections |-> <<
          [ heading |-> "Problem",         body |-> <<project.problem>> ],
          [ heading |-> "Architecture",    body |-> project.architecture ],
          [ heading |-> "Key Decisions",   body |-> project.decisions ],
          [ heading |-> "Failure Modes",   body |-> project.failures ],
          [ heading |-> FinalHeading(selected), body |-> project.next ] >> ]

(* HomePage with the two cards in the other order. *)
HomePage_swapped ==
    [ view  |-> "home",
      hero  |-> "Creativity doesn't ask for permission.",
      cards |-> << ProjectCard("blogging", projects.blogging),
                   ProjectCard("ecommerce", projects.ecommerce) >>,
      contact |-> << [ href |-> "https://linkedin.com", text |-> "LinkedIn" ],
                     [ href |-> "https://github.com", text |-> "GitHub" ],
                     [ href |-> "mailto:contact@example.com", text |-> "Email" ] >> ]

(* HomePage: the hero heading, the two cards and the three contact links   *)
(* (the static hero and about paragraphs are left out).                    *)
HomePage ==
    [ view  |-> "home",
      hero  |-> "Creativity doesn't ask for permission.",
      cards |-> << ProjectCard("ecommerce", projects.ecommerce),
                   ProjectCard("blogging", projects.blogging) >>,
      contact |-> << [ href |-> "https://linkedin.com", text |-> "LinkedIn" ],
                     [ href |-> "https://github.com", text |-> "GitHub" ],
                     [ href |-> "mailto:contact@example.com", text |-> "Email" ] >> ]

(* Neither branch of the conditional render applies: the page is empty. *)
EmptyPage == [ view |-> "empty" ]

(* ProjectDetail reads project.title of an undefined record: the render    *)
(* throws a TypeError, no error boundary catches it and React unmounts     *)
(* the tree.                                                               *)
RenderError == [ view |-> "error", error |-> "TypeError" ]

(* JavaScript's null, as held by selectedProject before any selection. *)
null == "#null"

(* A value is truthy unless it is null or the empty string (the only falsy *)
(* values selectedProject can hold).                                       *)
Truthy(v) == v # null /\ v # ""

(* Portfolio with the detail branch testing a view name never written. *)
Portfolio_typo(view, selected) ==
    IF view = "home" THEN HomePage
    ELSE IF view = "detail" /\ Truthy(selected)
         THEN IF HasProject(selected)
              THEN ProjectDetail(projects[selected], selected)
              ELSE RenderError
         ELSE EmptyPage

(* Portfolio with a home view that puts the selected project's card first. *)
Portfolio_selectedFirst(view, selected) ==
    IF view = "home"
    THEN IF selected = "blogging" THEN HomePage_swapped ELSE HomePage
    ELSE IF view = "project" /\ Truthy(selected)
         THEN IF HasProject(selected)
              THEN ProjectDetail(projects[selected], selected)
              ELSE RenderError
         ELSE EmptyPage

(* The component's return: which sub-view the state selects. *)
Portfolio(view, selected) ==
    IF view = "home" THEN HomePage
    ELSE IF view = "project" /\ Truthy(selected)
         THEN IF HasProject(selected)
              THEN ProjectDetail(projects[selected], selected)
              ELSE RenderError
         ELSE EmptyPage

(* ------------------------------ the handlers --------------------------- *)

(* CardOnClick without its write of currentView. *)
CardOnClick_noView(projectKey) ==
    /\ selectedProject' = projectKey
    /\ UNCHANGED currentView

(* CardOnClick writing a view name the render does not know. *)
CardOnClick_detail(projectKey) ==
    /\ selectedProject' = projectKey
    /\ currentView' = "detail"

(* ProjectCard's onClick. *)
CardOnClick(projectKey) ==
    /\ selectedProject' = projectKey
    /\ currentView' = "project"

(* The handler's writes in the other order: currentView first. *)
CardWrite1_viewFirst(projectKey) ==
    /\ currentView' = "project"
    /\ UNCHANGED selectedProject

(* The same handler one write at a time: setSelectedProject(projectKey). *)
CardWrite1(projectKey) ==
    /\ selectedProject' = projectKey
    /\ UNCHANGED currentView

(* Its second write: setCurrentView('project'). *)
CardWrite2 ==
    /\ currentView' = "project"
    /\ UNCHANGED selectedProject

(* BackOnClick as a toggle of the view. *)
BackOnClick_toggle ==
    /\ currentView' = IF currentView = "home" THEN "project" ELSE "home"
    /\ UNCHANGED selectedProject

(* BackOnClick that also clears the selection. *)
BackOnClick_clears ==
    /\ currentView' = "home"
    /\ selectedProject' = null

(* The Back button's onClick. *)
BackOnClick ==
    /\ currentView' = "home"
    /\ UNCHANGED selectedProject

(* React renders the component again with the state just written; a write  *)
(* of the value the state already holds causes no render.                  *)
Commit ==
    IF <<currentView', selectedProject'>> = <<currentView, selectedProject>>
    THEN UNCHANGED <<rendered, renders>>
    ELSE /\ rendered' = Portfolio(currentView', selectedProject')
         /\ renders' = renders + 1

(* The keys the rendered cards carry. *)
CardKeys ==
    IF "cards" \in DOMAIN rendered
    THEN { rendered.cards[i].projectKey : i \in 1..Len(rendered.cards) }
    ELSE {}

(* Whether the rendered view holds the Back button. *)
BackShown == "back" \in DOMAIN rendered

(* Whether the component is still mounted. *)
Mounted == rendered.view # "error"

Gesture(name, id) == [ op |-> name, id |-> id ]

(* ------------------------------- the state ----------------------------- *)

Init ==
    /\ currentView = "home"
    /\ selectedProject = null
    /\ rendered = Portfolio("home", null)
    /\ renders = 1
    /\ pc = "idle"
    /\ log = << >>

(* The user activates the card of key k. *)
ClickCard(k) ==
    /\ pc = "idle"
    /\ k \in CardKeys
    /\ Len(log) < MaxGestures
    /\ CardOnClick(k)
    /\ Commit
    /\ log' = Append(log, Gesture("selectProject", k))
    /\ UNCHANGED pc

(* The user activates Back. *)
ClickBack ==
    /\ pc = "idle"
    /\ BackShown
    /\ Len(log) < MaxGestures
    /\ BackOnClick
    /\ Commit
    /\ log' = Append(log, Gesture("goHome", null))
    /\ UNCHANGED pc

Next ==
    \/ \E k \in Ids : ClickCard(k)
    \/ ClickBack

Spec == Init /\ [][Next]_vars

(* The card's handler with a render after each of its two writes. *)
ClickCardFirstWrite(k) ==
    /\ pc = "idle"
    /\ k \in CardKeys
    /\ Len(log) < MaxGestures
    /\ CardWrite1(k)
    /\ Commit
    /\ log' = Append(log, Gesture("selectProject", k))
    /\ pc' = "onClick"

ClickCardSecondWrite ==
    /\ pc = "onClick"
    /\ CardWrite2
    /\ Commit
    /\ pc' = "idle"
    /\ UNCHANGED log

NextUnbatched ==
    \/ \E k \in Ids : ClickCard(k)
    \/ \E k \in Ids : ClickCardFirstWrite(k)
    \/ ClickCardSecondWrite
    \/ ClickBack

SpecUnbatched == Init /\ [][NextUnbatched]_vars

(* The handlers as operations of the controller: selectProject(id) is the  *)
(* card handler run with projectKey = id, goHome() the Back handler, on a  *)
(* mounted component, whatever view is shown.                              *)
selectProject(id) ==
    /\ Mounted
    /\ Len(log) < MaxCalls
    /\ CardOnClick(id)
    /\ Commit
    /\ log' = Append(log, Gesture("selectProject", id))
    /\ UNCHANGED pc

goHome ==
    /\ Mounted
    /\ Len(log) < MaxCalls
    /\ BackOnClick
    /\ Commit
    /\ log' = Append(log, Gesture("goHome", null))
    /\ UNCHANGED pc

NextApi ==
    \/ \E id \in Ids : selectProject(id)
    \/ goHome

SpecApi == Init /\ [][NextApi]_vars

(* -------------------------------- claims ------------------------------- *)

Last == log[Len(log)]

(* The step appends this gesture to the log: the handler has run. *)
Handled(name, id) == log' = Append(log, Gesture(name, id))

(* C1: whenever currentView is project, selectedProject is a key of the    *)
(* registry, also between and after the card handler's two writes when     *)
(* each is committed on its own.                                           *)
C1_SelectedValidInProjectView ==
    currentView = "project" => selectedProject \in DOMAIN projects

(* A project view reached through the two separately committed writes,     *)
(* after an earlier selection of the other project.                        *)
C1_Witness ==
    /\ currentView = "project"
    /\ selectedProject = "blogging"
    /\ renders > Len(log) + 1
    /\ Len(log) >= 3
    /\ log[1].id = "ecommerce"

(* C2: selectProject(id) with id a key of the registry, from any state,    *)
(* yields currentView = project and selectedProject = id, and the detail   *)
(* view then rendered shows registry[id].title as its header title.        *)
C2_SelectProjectEffect ==
    [][\A id \in DOMAIN projects :
          Handled("selectProject", id) =>
              /\ currentView' = "project"
              /\ selectedProject' = id
              /\ rendered'.view = "project"
              /\ rendered'.title = projects[id].title]_vars

(* selectProject("blogging") invoked while the detail view of ecommerce    *)
(* was shown.                                                              *)
C2_Witness ==
    /\ Len(log) >= 2
    /\ Last = Gesture("selectProject", "blogging")
    /\ log[Len(log) - 1] = Gesture("selectProject", "ecommerce")
    /\ rendered.view = "project"
    /\ rendered.title = "Microservices Blogging Platform"

(* C3: a fresh session has currentView = home and selectedProject = null,  *)
(* and its home view holds exactly two cards in registry order: ecommerce  *)
(* titled "E-Commerce System", then blogging titled "Microservices         *)
(* Blogging Platform".                                                     *)
C3_FreshSession ==
    log = << >> =>
        /\ currentView = "home"
        /\ selectedProject = null
        /\ rendered.view = "home"
        /\ Len(rendered.cards) = 2
        /\ [ i \in 1..2 |-> rendered.cards[i].projectKey ] = projectKeys
        /\ rendered.cards[1].projectKey = "ecommerce"
        /\ rendered.cards[1].title = "E-Commerce System"
        /\ rendered.cards[2].projectKey = "blogging"
        /\ rendered.cards[2].title = "Microservices Blogging Platform"

C3_Witness ==
    /\ log = << >>
    /\ renders = 1
    /\ rendered.view = "home"
    /\ Len(rendered.cards) = 2

C5_TwoStateMachine ==
    /\ [](currentView \in { "home", "project" })
    /\ [][(currentView' # currentView \/ selectedProject' # selectedProject) =>
             \/ /\ currentView = "home"
                /\ currentView' = "project"
                /\ \E id \in DOMAIN projects :
                      Handled("selectProject", id) /\ selectedProject' = id
             \/ /\ currentView = "project"
                /\ currentView' = "home"
                /\ Handled("goHome", null)
                /\ selectedProject' = selectedProject]_vars

(* Both transitions have been taken, twice over. *)
C5_Witness ==
    /\ Len(log) >= 4
    /\ log[1].op = "selectProject"
    /\ log[2].op = "goHome"
    /\ log[3].op = "selectProject"
    /\ Last.op = "goHome"
    /\ currentView = "home"

(* C6: after selectProject(id) followed by goHome(), currentView is home   *)
(* and the home view rendered is the one of the initial state: the same    *)
(* two cards, in the same order, with the registry's content.              *)
C6_RoundTrip ==
    (/\ Len(log) >= 2
     /\ Last.op = "goHome"
     /\ log[Len(log) - 1].op = "selectProject") =>
        /\ currentView = "home"
        /\ rendered = Portfolio("home", null)
        /\ \A i \in 1..Len(projectKeys) :
              rendered.cards[i] =
                  ProjectCard(projectKeys[i], projects[projectKeys[i]])

C6_Witness ==
    /\ Len(log) >= 2
    /\ Last.op = "goHome"
    /\ log[Len(log) - 1] = Gesture("selectProject", "blogging")
    /\ currentView = "home"
    /\ selectedProject = "blogging"

(* C7: no state is terminal: whatever view is current, it is rendered and  *)
(* the navigation to the other view is enabled through it, a card for      *)
(* every registry key on home and Back on a detail view (up to the model's *)
(* bound on the number of gestures).                                       *)
C7_NavigationAlwaysEnabled ==
    /\ rendered.view = currentView
    /\ Len(log) < MaxGestures =>
          /\ currentView = "home" =>
                \A id \in DOMAIN projects : ENABLED ClickCard(id)
          /\ currentView = "project" => ENABLED ClickBack

(* A detail view reached after a full round trip, with gestures left. *)
C7_Witness ==
    /\ Len(log) = 3
    /\ currentView = "project"
    /\ BackShown
    /\ ENABLED ClickBack

(* C8: on every rendered detail view the final section is headed "What's   *)
(* Next" for the in-progress project (ecommerce) and "Lessons Learned" for *)
(* the completed one (blogging), and the heading belongs to the record     *)
(* whose title and lists are shown.                                        *)
C8_FinalHeading ==
    rendered.view = "project" =>
        LET final == rendered.sections[Len(rendered.sections)]
            shown == CHOOSE id \in DOMAIN projects :
                         rendered.title = projects[id].title
        IN  /\ \E id \in DOMAIN projects : rendered.title = projects[id].title
            /\ rendered.status = projects[shown].status
            /\ final.body = projects[shown].next
            /\ rendered.status \in { "In Progress", "Completed" }
            /\ rendered.status = "In Progress" =>
                  shown = "ecommerce" /\ final.heading = "What's Next"
            /\ rendered.status = "Completed" =>
                  shown = "blogging" /\ final.heading = "Lessons Learned"

(* The detail view of ecommerce, shown after the one of blogging. *)
C8_Witness ==
    /\ Len(log) >= 3
    /\ log[1] = Gesture("selectProject", "blogging")
    /\ rendered.view = "project"
    /\ rendered.status = "In Progress"
    /\ rendered.sections[5].heading = "What's Next"

(* C9: goHome() called right after goHome() leaves the state of the first  *)
(* call: currentView home, the same selectedProject, the same rendered     *)
(* view, no error.                                                         *)
C9_GoHomeIdempotent ==
    [][(log # << >> /\ Last.op = "goHome" /\ Handled("goHome", null)) =>
          /\ currentView' = "home"
          /\ currentView' = currentView
          /\ selectedProject' = selectedProject
          /\ rendered' = rendered
          /\ rendered'.view = "home"]_vars

(* goHome() twice in a row after a selection. *)
C9_Witness ==
    /\ Len(log) >= 3
    /\ log[Len(log) - 2] = Gesture("selectProject", "ecommerce")
    /\ log[Len(log) - 1].op = "goHome"
    /\ Last.op = "goHome"
    /\ currentView = "home"
    /\ selectedProject = "ecommerce"

(* C10: goHome leaves selectedProject as it was; so once a project has     *)
(* been selected selectedProject is never null again, and on home the      *)
(* stale selection does not show in what is rendered.                      *)
C10_GoHomeKeepsSelection ==
    /\ [][Handled("goHome", null) =>
             currentView' = "home" /\ selectedProject' = selectedProject]_vars
    /\ [](log # << >> => selectedProject # null)
    /\ [](currentView = "home" => rendered = HomePage)

(* Home again, the selection of before still held. *)
C10_Witness ==
    /\ log # << >>
    /\ Last.op = "goHome"
    /\ currentView = "home"
    /\ selectedProject = "ecommerce"
    /\ rendered.view = "home"

=============================================================================
